---- MODULE Spec2Model ----
(***************************************************************************)
(* Tardis: the data-cleaning notebook (src/tardis_eda.ipynb) as a state    *)
(* machine.  The notebook is a linear script; every code cell that changes *)
(* the data is one action.  The helper functions of the notebook           *)
(* (correct_station_from_top, the date-repair lambda, safe_date_convert,   *)
(* the Season lambda) are operators, and each has a small harness          *)
(* specification that applies it to inputs drawn from bounded sets.        *)
(*                                                                         *)
(* Values.  A cell is either missing (NaN / NaT / None) or holds a value:  *)
(* Missing == <<>> and Some(x) == <<x>>.  Text is a sequence of            *)
(* one-character strings.  Numbers are stored in halves (Num(n) == 2*n),   *)
(* so that the median of two whole numbers is exact.                       *)
(***************************************************************************)
EXTENDS Integers, Sequences, FiniteSets, TLC

VARIABLES
    \* ---- the installed libraries
    wratio,     \* fuzzywuzzy: the similarity table of the matcher for unequal keys
    parser,     \* pandas: "lenient" when to_datetime reads six digits as YYYYMM
    \* ---- harness of correct_station_from_top
    fpc,        \* "call" before the call, "returned" after it
    name,       \* the argument name (a cell: Missing or Some(text))
    top_list,   \* the argument top_list (a list of distinct texts)
    ret,        \* the outcome of the call
    \* ---- harness of the date helpers
    dpc,        \* "raw", "repaired", "converted", "featured"
    date_str,   \* the Date cell as read from the file
    repaired,   \* the token after the date-repair lambda
    again,      \* the repair applied to its own output (Missing until done)
    parsed,     \* the result of safe_date_convert
    season,     \* the Season derived from parsed
    \* ---- the notebook
    dataset,          \* dataset.csv: the rows of the input file
    pc,               \* the next cell to run; "done"; "crashed" after an exception
    df,               \* the DataFrame: a sequence of rows, each a function of column names
    top_departures,   \* reference lists built from the data
    top_arrivals,
    top_services,
    df_clean,         \* the copy made by the validation cell
    cleaned_dataset,  \* cleaned_dataset.csv: Missing until written
    \* ---- the modeling notebook
    mpc,              \* the next cell to run; "done"; "crashed" after an exception
    X_train,          \* the rows of the training half ({} before the split)
    X_test,           \* the rows of the held-out half
    preprocessor,     \* the rows the shared ColumnTransformer was last fitted on
    results,          \* results[name]: the fitted pipeline and its held-out RMSE
    best_model_name,
    best_model,       \* the estimator that is saved
    rmse,             \* the global names rmse and r2: Missing while undefined
    r2,
    tardis_model,     \* tardis_model.pkl: Missing until written
    model_info        \* model_info.pkl: Missing until written

envVars   == <<wratio, parser>>
fuzzyVars == <<fpc, name, top_list, ret>>
dateVars  == <<dpc, date_str, repaired, again, parsed, season>>
topVars   == <<top_departures, top_arrivals, top_services>>
pipeVars  == <<dataset, pc, df, topVars, df_clean, cleaned_dataset>>
modelVars == <<mpc, X_train, X_test, preprocessor, results, best_model_name, best_model, rmse, r2,
               tardis_model, model_info>>
vars      == <<envVars, fuzzyVars, dateVars, pipeVars, modelVars>>

----------------------------------------------------------------------------
(* Cells                                                                   *)

Missing == <<>>
Some(x) == <<x>>
IsNa(c) == c = Missing
Value(c) == c[1]

(* Numbers are stored in halves. *)
Num(n) == 2 * n

----------------------------------------------------------------------------
(* Text                                                                    *)

UpperLetters == {"A", "B", "C"}
LowerLetters == {"a", "b", "c"}
Digits == {"0", "1", "2", "3", "4", "5", "6", "7", "8", "9"}

IsDigit(c) == c \in Digits

ToLower(c) ==
    CASE c = "A" -> "a"
      [] c = "B" -> "b"
      [] c = "C" -> "c"
      [] OTHER   -> c

IsAlnum(c) == c \in UpperLetters \cup LowerLetters \cup Digits

RECURSIVE LStrip(_)
LStrip(s) ==
    IF s = <<>> THEN <<>>
    ELSE IF Head(s) = " " THEN LStrip(Tail(s)) ELSE s

RECURSIVE RStrip(_)
RStrip(s) ==
    IF s = <<>> THEN <<>>
    ELSE IF s[Len(s)] = " " THEN RStrip(SubSeq(s, 1, Len(s) - 1)) ELSE s

Strip(s) == RStrip(LStrip(s))

----------------------------------------------------------------------------
(* The fuzzy corrector                                                     *)

threshold == 75

(* fuzzywuzzy's default processor: every character that is neither a       *)
(* letter nor a digit becomes a space, the text is lower-cased and         *)
(* stripped.                                                               *)
full_process(s) ==
    Strip([i \in 1..Len(s) |-> IF IsAlnum(s[i]) THEN ToLower(s[i]) ELSE " "])

(* fuzzywuzzy's default scorer on two processed texts: 0 when either is    *)
(* empty, 100 when they are equal; every other score is below 100 and is   *)
(* read from the table wratio.                                             *)
WRatio(p1, p2) ==
    IF p1 = <<>> \/ p2 = <<>> THEN 0
    ELSE IF p1 = p2 THEN 100
    ELSE wratio[<<p1, p2>>]

Scores(query, choices) ==
    [i \in 1..Len(choices) |-> WRatio(full_process(query), full_process(choices[i]))]

MaxScore(scores) ==
    CHOOSE m \in {scores[i] : i \in 1..Len(scores)} :
        \A i \in 1..Len(scores) : scores[i] <= m

(* A matcher that hands back the processed text of the best choice and    *)
(* not the choice as the list holds it.                                    *)
extractOneProcessed(query, choices) ==
    IF choices = <<>> THEN Missing
    ELSE LET sc == Scores(query, choices)
             i  == CHOOSE k \in 1..Len(sc) :
                       /\ sc[k] = MaxScore(sc)
                       /\ \A j \in 1..(k - 1) : sc[j] < sc[k]
         IN  Some([match |-> full_process(choices[i]), score |-> sc[i]])

(* process.extractOne: the first choice that reaches the highest score,    *)
(* with that score; None (Missing) for an empty list of choices.           *)
extractOne(query, choices) ==
    IF choices = <<>> THEN Missing
    ELSE LET sc == Scores(query, choices)
             i  == CHOOSE k \in 1..Len(sc) :
                       /\ sc[k] = MaxScore(sc)
                       /\ \A j \in 1..(k - 1) : sc[j] < sc[k]
         IN  Some([match |-> choices[i], score |-> sc[i]])

(* The comparison that decides whether the match replaces the name.        *)
AcceptsStrict(score) == score > threshold

Accepts(score) == score >= threshold

(* A corrector that asks the matcher before it looks at the name.          *)
CorrectAfterLookup(nm, lst) ==
    IF lst = <<>> THEN [kind |-> "raise", value |-> Missing, printed |-> FALSE]
    ELSE IF IsNa(nm) THEN [kind |-> "return", value |-> nm, printed |-> FALSE]
    ELSE LET best == extractOne(Value(nm), lst)
         IN  [kind    |-> "return",
              value   |-> IF Accepts(Value(best).score)
                          THEN Some(Value(best).match) ELSE nm,
              printed |-> Value(best).score < threshold]

(* correct_station_from_top(name, top_list): the outcome of one call.      *)
(* kind "raise": the unpacking of None raises TypeError.                   *)
(* printed: whether the call printed its "Correcting ..." line.            *)
correct_station_from_top(nm, lst) ==
    IF IsNa(nm) THEN [kind |-> "return", value |-> nm, printed |-> FALSE]
    ELSE LET best == extractOne(Value(nm), lst)
         IN  IF IsNa(best)
             THEN [kind |-> "raise", value |-> Missing, printed |-> FALSE]
             ELSE [kind    |-> "return",
                   value   |-> IF Accepts(Value(best).score)
                               THEN Some(Value(best).match) ELSE nm,
                   printed |-> Value(best).score < threshold]

----------------------------------------------------------------------------
(* Date repair, parsing, season                                            *)

DigitVal(c) ==
    CASE c = "0" -> 0 [] c = "1" -> 1 [] c = "2" -> 2 [] c = "3" -> 3
      [] c = "4" -> 4 [] c = "5" -> 5 [] c = "6" -> 6 [] c = "7" -> 7
      [] c = "8" -> 8 [] c = "9" -> 9

AllDigits(x, from, to) == \A k \in from..to : IsDigit(x[k])

(* The pattern \d{4}[^-]\d{2} at position i of x. *)
MatchAt(x, i) ==
    /\ i + 6 <= Len(x)
    /\ AllDigits(x, i, i + 3)
    /\ x[i + 4] # "-"
    /\ AllDigits(x, i + 5, i + 6)

(* re.match: the pattern at the start of x. *)
re_match(x) == MatchAt(x, 1)

(* re.sub of (\d{4})([^-])(\d{2}) by \1-\3: every match, left to right. *)
RECURSIVE re_sub_from(_, _)
re_sub_from(x, i) ==
    IF i > Len(x) THEN <<>>
    ELSE IF MatchAt(x, i)
         THEN SubSeq(x, i, i + 3) \o <<"-">> \o SubSeq(x, i + 5, i + 6)
                  \o re_sub_from(x, i + 7)
         ELSE <<x[i]>> \o re_sub_from(x, i + 1)

re_sub(x) == re_sub_from(x, 1)

(* A repair that puts a hyphen after any four leading digits. *)
DateRepairNaive(x) ==
    IF Len(x) >= 4 /\ AllDigits(x, 1, 4)
    THEN SubSeq(x, 1, 4) \o <<"-">> \o SubSeq(x, 5, Len(x))
    ELSE x

(* The lambda applied to every Date token. *)
DateRepair(x) == IF re_match(x) THEN re_sub(x) ELSE x

(* Series.astype(str): a missing cell becomes the text "nan". *)
astype_str(c) == IF IsNa(c) THEN <<"n", "a", "n">> ELSE Value(c)

YearOf(x) ==
    1000 * DigitVal(x[1]) + 100 * DigitVal(x[2]) + 10 * DigitVal(x[3]) + DigitVal(x[4])

(* pd.to_datetime(x, format="%Y-%m"): four digits, a hyphen, a month of    *)
(* one or two digits in 1..12; Missing stands for ValueError.              *)
ParseYearMonth(x) ==
    LET two == /\ Len(x) = 7 /\ AllDigits(x, 1, 4) /\ x[5] = "-" /\ AllDigits(x, 6, 7)
        one == /\ Len(x) = 6 /\ AllDigits(x, 1, 4) /\ x[5] = "-" /\ IsDigit(x[6])
        m   == IF two THEN 10 * DigitVal(x[6]) + DigitVal(x[7])
               ELSE IF one THEN DigitVal(x[6]) ELSE 0
    IN  IF m \in 1..12 THEN Some([year |-> YearOf(x), month |-> m]) ELSE Missing

(* The two behaviours of pd.to_datetime on six digits. *)
ParserBuilds == {"strict", "lenient"}

(* pd.to_datetime(x) without a format, on the tokens of DateTokens: a      *)
(* year-month text parses as such; six digits are read as YYYYMM by a      *)
(* lenient parser and refused by a strict one; anything else is refused.   *)
(* Missing stands for ValueError (NaT under errors="coerce").              *)
ParseGeneric(x) ==
    IF ParseYearMonth(x) # Missing THEN ParseYearMonth(x)
    ELSE IF Len(x) = 6 /\ AllDigits(x, 1, 6) /\ parser = "lenient"
         THEN ParseYearMonth(SubSeq(x, 1, 4) \o <<"-">> \o SubSeq(x, 5, 6))
         ELSE Missing

(* A conversion without the fallback to flexible parsing. *)
SafeDateConvertFormatOnly(s) ==
    IF s = <<>> \/ s = <<"N", "/", "A">> THEN Missing
    ELSE ParseYearMonth(s)

(* safe_date_convert(date_str) *)
safe_date_convert(s) ==
    IF s = <<>> \/ s = <<"N", "/", "A">> THEN Missing
    ELSE IF ParseYearMonth(s) # Missing THEN ParseYearMonth(s)
         ELSE ParseGeneric(s)

(* Series.dt.month *)
MonthOf(d) == IF IsNa(d) THEN Missing ELSE Some(Value(d).month)

(* A season lambda whose Winter list lacks December. *)
SeasonNoDecember(x) ==
    IF ~IsNa(x) /\ Value(x) \in {1, 2} THEN "Winter"
    ELSE IF ~IsNa(x) /\ Value(x) \in {3, 4, 5} THEN "Spring"
    ELSE IF ~IsNa(x) /\ Value(x) \in {6, 7, 8} THEN "Summer"
    ELSE IF ~IsNa(x) /\ Value(x) \in {9, 10, 11} THEN "Fall"
    ELSE "Unknown"

(* The lambda that derives Season from the month. *)
Season(x) ==
    IF ~IsNa(x) /\ Value(x) \in {12, 1, 2} THEN "Winter"
    ELSE IF ~IsNa(x) /\ Value(x) \in {3, 4, 5} THEN "Spring"
    ELSE IF ~IsNa(x) /\ Value(x) \in {6, 7, 8} THEN "Summer"
    ELSE IF ~IsNa(x) /\ Value(x) \in {9, 10, 11} THEN "Fall"
    ELSE "Unknown"

----------------------------------------------------------------------------
(* The notebook: columns                                                   *)

colService   == "Service"
colDeparture == "Departure station"
colArrival   == "Arrival station"
colDate      == "Date"
colCancelled == "Number of cancelled trains"
colArrDelay  == "Average delay of all trains at arrival"
colExternal  == "Pct delay due to external causes"
colInfra     == "Pct delay due to infrastructure"

(* The declared numeric columns: one count, one average and two            *)
(* percentages stand for the nineteen of the list, which the cells treat   *)
(* by these three kinds.                                                   *)
numeric_columns == {colCancelled, colArrDelay, colExternal, colInfra}

(* "Average" in col, "Pct" in col, "Pct delay due to" in col *)
HasAverage(col) == col \in {colArrDelay}
HasPct(col) == col \in {colExternal, colInfra}
delay_cause_columns == {colExternal, colInfra}

categorical_columns == <<colService, colDeparture, colArrival, "Season">>

Col(d, c) == [i \in 1..Len(d) |-> d[i][c]]
SetCol(d, c, vals) == [i \in 1..Len(d) |-> [d[i] EXCEPT ![c] = vals[i]]]
AddCol(d, c, vals) == [i \in 1..Len(d) |-> (c :> vals[i]) @@ d[i]]

----------------------------------------------------------------------------
(* Cell 7a8373ef: normalize_station_name                                   *)

IsLetter(c) == c \in UpperLetters \cup LowerLetters

ToUpper(c) ==
    CASE c = "a" -> "A"
      [] c = "b" -> "B"
      [] c = "c" -> "C"
      [] OTHER   -> c

(* str.title: a letter after a letter is lower-cased, any other letter is  *)
(* upper-cased.                                                            *)
Title(s) ==
    [i \in 1..Len(s) |->
        IF ~IsLetter(s[i]) THEN s[i]
        ELSE IF i > 1 /\ IsLetter(s[i - 1]) THEN ToLower(s[i]) ELSE ToUpper(s[i])]

(* " ".join(s.split()): runs of spaces become one space, none at the ends. *)
RECURSIVE Collapse(_)
Collapse(s) ==
    IF Len(s) < 2 THEN s
    ELSE IF s[1] = " " /\ s[2] = " " THEN Collapse(Tail(s))
    ELSE <<s[1]>> \o Collapse(Tail(s))

JoinSplit(s) == Collapse(Strip(s))

normalize_station_name(text) ==
    IF IsNa(text) THEN text
    ELSE Some(JoinSplit(Title(Strip(Value(text)))))

NormalizeCol(d, c) ==
    SetCol(d, c, [i \in 1..Len(d) |-> normalize_station_name(d[i][c])])

----------------------------------------------------------------------------
(* Cell 2c2163e4: the reference lists                                      *)

head_stations == 59
head_services == 2

Min(a, b) == IF a <= b THEN a ELSE b

Count(col, v) == Cardinality({i \in 1..Len(col) : col[i] = Some(v)})

Distinct(col) == {Value(col[i]) : i \in {k \in 1..Len(col) : ~IsNa(col[k])}}

(* value_counts().head(n).index.tolist(): the distinct values by falling   *)
(* count, values of equal count in any order, cut to the first n.          *)
TopLists(col, n) ==
    LET S == Distinct(col)
        orders == {l \in [1..Cardinality(S) -> S] :
                      /\ \A i, j \in 1..Cardinality(S) : i # j => l[i] # l[j]
                      /\ \A i, j \in 1..Cardinality(S) :
                             i < j => Count(col, l[i]) >= Count(col, l[j])}
    IN  {SubSeq(l, 1, Min(n, Len(l))) : l \in orders}

----------------------------------------------------------------------------
(* Cell 34cc21c0: the corrections applied to the three text columns        *)

CorrectCol(d, c, lst) ==
    [i \in 1..Len(d) |-> correct_station_from_top(d[i][c], lst)]

Raises(calls) == \E i \in 1..Len(calls) : calls[i].kind = "raise"

Returned(calls) == [i \in 1..Len(calls) |-> calls[i].value]

----------------------------------------------------------------------------
(* Cell 167e4d79: date repair and the future-date filter                   *)

datetime_now == [year |-> 2025, month |-> 6]

NotAfter(d, t) == d.year < t.year \/ (d.year = t.year /\ d.month <= t.month)

(* A filter that drops only the rows it can date after the run. *)
NotKnownFuture(row) ==
    LET d == ParseGeneric(Value(row[colDate]))
    IN  IsNa(d) \/ NotAfter(Value(d), datetime_now)

(* pd.to_datetime(x, errors="coerce") <= datetime.now(); NaT compares False *)
NotInFuture(row) ==
    LET d == ParseGeneric(Value(row[colDate]))
    IN  ~IsNa(d) /\ NotAfter(Value(d), datetime_now)

RepairCol(d) ==
    SetCol(d, colDate,
           [i \in 1..Len(d) |-> Some(DateRepair(astype_str(d[i][colDate])))])

----------------------------------------------------------------------------
(* Cell 81f6ccde: df_clean                                                 *)

HasDate(row) == ~IsNa(row[colDate])

----------------------------------------------------------------------------
(* Cell 0e45365e: Year, Month, Season                                      *)

YearCell(d) == IF IsNa(d) THEN Missing ELSE Some(Value(d).year)

----------------------------------------------------------------------------
(* Cell 7bb52bf6: the numeric column cleaning loop                         *)

max_reasonable_delay == 500
pct_max == 100

(* pd.to_numeric(errors="coerce") on one cell of the file *)
to_numeric(raw) ==
    IF IsNa(raw) THEN Missing
    ELSE IF Value(raw).t = "text" THEN Missing
    ELSE Some(Num(Value(raw).v))

Below(v, n) == ~IsNa(v) /\ Value(v) < Num(n)
Above(v, n) == ~IsNa(v) /\ Value(v) > Num(n)

(* df.loc[negative, col] = 0.0 *)
KeepNegative(v) == v

ZeroNegative(v) == IF Below(v, 0) THEN Some(Num(0)) ELSE v

(* df.loc[outliers, col] = np.nan, for a column whose name has "Average" *)
CapAverageOff(col, v) == v

(* An Average branch that clamps to the limit. *)
CapAverageClamp(col, v) ==
    IF HasAverage(col) /\ Above(v, max_reasonable_delay)
    THEN Some(Num(max_reasonable_delay)) ELSE v

CapAverage(col, v) ==
    IF HasAverage(col) /\ Above(v, max_reasonable_delay) THEN Missing ELSE v

(* the percentage branch: over 100 becomes 100, negative becomes 0 *)
ClampPct(col, v) ==
    IF ~HasPct(col) THEN v
    ELSE LET capped == IF Above(v, pct_max) THEN Some(Num(pct_max)) ELSE v
         IN  IF Below(capped, 0) THEN Some(Num(0)) ELSE capped

CleanCell(col, raw) == ClampPct(col, CapAverage(col, ZeroNegative(to_numeric(raw))))

CleanNumeric(d) ==
    [i \in 1..Len(d) |->
        [c \in DOMAIN d[i] |->
            IF c \in numeric_columns THEN CleanCell(c, d[i][c]) ELSE d[i][c]]]

----------------------------------------------------------------------------
(* Cell c43d167b: Delay_Category and Total_Delay_Score                     *)

(* pd.cut with the same bins closed on the left (right=False) *)
Delay_CategoryLeftClosed(v) ==
    IF IsNa(v) THEN Missing
    ELSE IF Value(v) < Num(5) THEN Some("Minimal")
    ELSE IF Value(v) < Num(15) THEN Some("Moderate")
    ELSE IF Value(v) < Num(30) THEN Some("Significant")
    ELSE Some("Severe")

(* pd.cut with bins -inf, 5, 15, 30, inf, closed on the right *)
Delay_Category(v) ==
    IF IsNa(v) THEN Missing
    ELSE IF Value(v) <= Num(5) THEN Some("Minimal")
    ELSE IF Value(v) <= Num(15) THEN Some("Moderate")
    ELSE IF Value(v) <= Num(30) THEN Some("Significant")
    ELSE Some("Severe")

RECURSIVE SumSkipNa(_, _)
SumSkipNa(row, cols) ==
    IF cols = {} THEN 0
    ELSE LET c == CHOOSE x \in cols : TRUE
         IN  (IF IsNa(row[c]) THEN 0 ELSE Value(row[c])) + SumSkipNa(row, cols \ {c})

(* df[delay_cause_columns].sum(axis=1, skipna=True) *)
Total_Delay_Score(row) == Some(SumSkipNa(row, delay_cause_columns))

----------------------------------------------------------------------------
(* Cell 694ae288: median fill, mode fill, Is_Significantly_Delayed, Route  *)

Present(col) == {i \in 1..Len(col) : ~IsNa(col[i])}

(* the k-th smallest of the present values of a column *)
KthSmallest(col, k) ==
    CHOOSE v \in {Value(col[i]) : i \in Present(col)} :
        /\ Cardinality({i \in Present(col) : Value(col[i]) < v}) < k
        /\ Cardinality({i \in Present(col) : Value(col[i]) <= v}) >= k

(* Series.median: NaN for a column without values, the middle value, or    *)
(* the mean of the two middle values.                                      *)
Median(col) ==
    LET n == Cardinality(Present(col))
    IN  IF n = 0 THEN Missing
        ELSE IF n % 2 = 1 THEN Some(KthSmallest(col, (n + 1) \div 2))
        ELSE Some((KthSmallest(col, n \div 2) + KthSmallest(col, n \div 2 + 1)) \div 2)

fillna(col, v) == [i \in 1..Len(col) |-> IF IsNa(col[i]) THEN v ELSE col[i]]

(* A median fill that brings Total_Delay_Score up to date afterwards. *)
MedianFillRescoring(d) ==
    LET m == [i \in 1..Len(d) |->
                 [c \in DOMAIN d[i] |->
                     IF c \in numeric_columns /\ IsNa(d[i][c])
                     THEN Median(Col(d, c)) ELSE d[i][c]]]
    IN  [i \in 1..Len(m) |->
            [m[i] EXCEPT !["Total_Delay_Score"] = Total_Delay_Score(m[i])]]

MedianFill(d) ==
    [i \in 1..Len(d) |->
        [c \in DOMAIN d[i] |->
            IF c \in numeric_columns /\ IsNa(d[i][c]) THEN Median(Col(d, c)) ELSE d[i][c]]]

(* the order of str values: by code point *)
CharOrder == <<" ", "-", "A", "B", "C", "a", "b", "c">>

Rank(c) == CHOOSE i \in 1..Len(CharOrder) : CharOrder[i] = c

RECURSIVE TextLess(_, _)
TextLess(a, b) ==
    IF b = <<>> THEN FALSE
    ELSE IF a = <<>> THEN TRUE
    ELSE IF Head(a) = Head(b) THEN TextLess(Tail(a), Tail(b))
    ELSE Rank(Head(a)) < Rank(Head(b))

SeasonOrder == <<"Fall", "Spring", "Summer", "Unknown", "Winter">>

LabelRank(l) == CHOOSE i \in 1..Len(SeasonOrder) : SeasonOrder[i] = l

ValueLess(c, a, b) ==
    IF c = "Season" THEN LabelRank(a) < LabelRank(b) ELSE TextLess(a, b)

(* Series.mode()[0]: the most frequent value, the smallest of them when    *)
(* several are; only taken of a column that has a value.                   *)
Mode0(c, col) ==
    LET S    == Distinct(col)
        most == {v \in S : \A w \in S : Count(col, w) <= Count(col, v)}
    IN  CHOOSE v \in most : \A w \in most : w = v \/ ValueLess(c, v, w)

(* The loop over categorical_columns: mode()[0] raises on the first column *)
(* without any value, the columns before it are already filled.            *)
RECURSIVE ModeFillFrom(_, _)
ModeFillFrom(d, k) ==
    IF k > Len(categorical_columns) THEN [frame |-> d, raised |-> FALSE]
    ELSE LET c == categorical_columns[k]
         IN  IF Distinct(Col(d, c)) = {} THEN [frame |-> d, raised |-> TRUE]
             ELSE ModeFillFrom(SetCol(d, c, fillna(Col(d, c), Some(Mode0(c, Col(d, c))))),
                               k + 1)

ModeFill(d) == ModeFillFrom(d, 1)

significant_delay == 15

(* (df[...] > 15).astype(int) *)
IsDelayedAtLeast(v) == IF ~IsNa(v) /\ Value(v) >= Num(significant_delay) THEN 1 ELSE 0

Is_Significantly_Delayed(v) == IF Above(v, significant_delay) THEN 1 ELSE 0

(* df["Departure station"] + " to " + df["Arrival station"] *)
Route(row) ==
    IF IsNa(row[colDeparture]) \/ IsNa(row[colArrival]) THEN Missing
    ELSE Some(Value(row[colDeparture]) \o <<" ", "t", "o", " ">> \o Value(row[colArrival]))

----------------------------------------------------------------------------
(* The cells as actions                                                    *)

Step(next) == pc' = next

(* Cell f3f885cc: pd.read_csv; every row keeps its index label *)
Cell_Load ==
    /\ pc = "load"
    /\ df' = [i \in 1..Len(dataset) |-> ("index" :> i) @@ dataset[i]]
    /\ Step("normalize")
    /\ UNCHANGED <<dataset, topVars, df_clean, cleaned_dataset>>
    /\ UNCHANGED <<envVars, fuzzyVars, dateVars, modelVars>>

Cell_Normalize ==
    /\ pc = "normalize"
    /\ df' = NormalizeCol(NormalizeCol(NormalizeCol(df, colService), colDeparture), colArrival)
    /\ Step("toplists")
    /\ UNCHANGED <<dataset, topVars, df_clean, cleaned_dataset>>
    /\ UNCHANGED <<envVars, fuzzyVars, dateVars, modelVars>>

Cell_TopLists ==
    /\ pc = "toplists"
    /\ top_departures' \in TopLists(Col(df, colDeparture), head_stations)
    /\ top_arrivals' \in TopLists(Col(df, colArrival), head_stations)
    /\ top_services' \in TopLists(Col(df, colService), head_services)
    /\ Step("fuzzy")
    /\ UNCHANGED <<dataset, df, df_clean, cleaned_dataset>>
    /\ UNCHANGED <<envVars, fuzzyVars, dateVars, modelVars>>

Cell_Fuzzy ==
    /\ pc = "fuzzy"
    /\ LET s  == CorrectCol(df, colService, top_services)
           d1 == IF Raises(s) THEN df ELSE SetCol(df, colService, Returned(s))
           dp == CorrectCol(d1, colDeparture, top_departures)
           d2 == IF Raises(dp) THEN d1 ELSE SetCol(d1, colDeparture, Returned(dp))
           ar == CorrectCol(d2, colArrival, top_arrivals)
           d3 == IF Raises(ar) THEN d2 ELSE SetCol(d2, colArrival, Returned(ar))
       IN  IF Raises(s) THEN df' = df /\ Step("crashed")
           ELSE IF Raises(dp) THEN df' = d1 /\ Step("crashed")
           ELSE IF Raises(ar) THEN df' = d2 /\ Step("crashed")
           ELSE df' = d3 /\ Step("daterepair")
    /\ UNCHANGED <<dataset, topVars, df_clean, cleaned_dataset>>
    /\ UNCHANGED <<envVars, fuzzyVars, dateVars, modelVars>>

Cell_DateRepair ==
    /\ pc = "daterepair"
    /\ df' = SelectSeq(RepairCol(df), NotInFuture)
    /\ Step("dateconvert")
    /\ UNCHANGED <<dataset, topVars, df_clean, cleaned_dataset>>
    /\ UNCHANGED <<envVars, fuzzyVars, dateVars, modelVars>>

Cell_DateConvert ==
    /\ pc = "dateconvert"
    /\ df' = SetCol(df, colDate,
                    [i \in 1..Len(df) |-> safe_date_convert(Value(df[i][colDate]))])
    /\ Step("validate")
    /\ UNCHANGED <<dataset, topVars, df_clean, cleaned_dataset>>
    /\ UNCHANGED <<envVars, fuzzyVars, dateVars, modelVars>>

Cell_Validate ==
    /\ pc = "validate"
    /\ df_clean' = SelectSeq(df, HasDate)
    /\ Step("datefeatures")
    /\ UNCHANGED <<dataset, df, topVars, cleaned_dataset>>
    /\ UNCHANGED <<envVars, fuzzyVars, dateVars, modelVars>>

(* .dt on the Date column of a frame without rows raises AttributeError *)
Cell_DateFeatures ==
    /\ pc = "datefeatures"
    /\ IF df = <<>>
       THEN df' = df /\ Step("crashed")
       ELSE /\ df' = LET y == AddCol(df, "Year", [i \in 1..Len(df) |-> YearCell(df[i][colDate])])
                         m == AddCol(y, "Month", [i \in 1..Len(df) |-> MonthOf(df[i][colDate])])
                     IN  AddCol(m, "Season",
                                [i \in 1..Len(df) |-> Some(Season(MonthOf(df[i][colDate])))])
            /\ Step("numclean")
    /\ UNCHANGED <<dataset, topVars, df_clean, cleaned_dataset>>
    /\ UNCHANGED <<envVars, fuzzyVars, dateVars, modelVars>>

Cell_NumClean ==
    /\ pc = "numclean"
    /\ df' = CleanNumeric(df)
    /\ Step("features")
    /\ UNCHANGED <<dataset, topVars, df_clean, cleaned_dataset>>
    /\ UNCHANGED <<envVars, fuzzyVars, dateVars, modelVars>>

Cell_Features ==
    /\ pc = "features"
    /\ df' = LET c == AddCol(df, "Delay_Category",
                             [i \in 1..Len(df) |-> Delay_Category(df[i][colArrDelay])])
             IN  AddCol(c, "Total_Delay_Score",
                        [i \in 1..Len(df) |-> Total_Delay_Score(df[i])])
    /\ Step("finalprep")
    /\ UNCHANGED <<dataset, topVars, df_clean, cleaned_dataset>>
    /\ UNCHANGED <<envVars, fuzzyVars, dateVars, modelVars>>

Cell_FinalPrep ==
    /\ pc = "finalprep"
    /\ LET moded == ModeFill(MedianFill(df))
       IN  IF moded.raised
           THEN df' = moded.frame /\ Step("crashed")
           ELSE /\ df' = LET m == moded.frame
                             s == AddCol(m, "Is_Significantly_Delayed",
                                         [i \in 1..Len(m) |->
                                             Is_Significantly_Delayed(m[i][colArrDelay])])
                         IN  AddCol(s, "Route", [i \in 1..Len(s) |-> Route(s[i])])
                /\ Step("save")
    /\ UNCHANGED <<dataset, topVars, df_clean, cleaned_dataset>>
    /\ UNCHANGED <<envVars, fuzzyVars, dateVars, modelVars>>

Cell_Save ==
    /\ pc = "save"
    /\ cleaned_dataset' = Some(df)
    /\ Step("done")
    /\ UNCHANGED <<dataset, df, topVars, df_clean>>
    /\ UNCHANGED <<envVars, fuzzyVars, dateVars, modelVars>>

Next ==
    \/ Cell_Load
    \/ Cell_Normalize
    \/ Cell_TopLists
    \/ Cell_Fuzzy
    \/ Cell_DateRepair
    \/ Cell_DateConvert
    \/ Cell_Validate
    \/ Cell_DateFeatures
    \/ Cell_NumClean
    \/ Cell_Features
    \/ Cell_FinalPrep
    \/ Cell_Save

----------------------------------------------------------------------------
(* The modeling notebook (src/unnamed/part_000)                            *)

target == colArrDelay

(* the columns of numerical_features that the cleaning model carries *)
numerical_features == <<colCancelled, colExternal, colInfra, "Year", "Month">>

categorical_features == <<colService, colDeparture, colArrival, "Season">>

(* models: the candidates in the order of the dict *)
models == <<"Linear Regression", "Decision Tree", "Random Forest", "Gradient Boosting">>

ModelNames == {models[i] : i \in 1..Len(models)}

(* The held-out RMSE values a fit can come out with. *)
MaxRmse == 3

RmseLevels == 1..MaxRmse

(* The rows of features_df. *)
MaxSamples == 4

X == 1..MaxSamples

(* train_test_split(X, y, test_size=0.5, random_state=42): the held-out    *)
(* half has ceil(n / 2) rows; which rows is up to the seeded shuffle.      *)
train_test_split(rows) ==
    {[train |-> rows \ t, test |-> t] :
        t \in {u \in SUBSET rows : Cardinality(u) = (Cardinality(rows) + 1) \div 2}}

(* Rows that a fit must not read: both halves. *)
BothHalves(train, test) == train \cup test

(* pipeline.fit(X_train, y_train): the rows a candidate is fitted on *)
PipelineFitRows(train, test) == train

(* grid_search.fit(X_train, y_train): the rows the folds and the refit read *)
GridSearchFitRows(train, test) == train

(* A pipeline: the candidate it was built from, whether it is the refitted *)
(* estimator of the grid search, its RMSE on X_test, the rows its          *)
(* regressor was fitted on, and its preprocessor step: Missing while the   *)
(* step is the shared preprocessor object, the rows a copy of its own was  *)
(* fitted on otherwise.                                                    *)
Estimator(n, t, e, rows, own) ==
    [name |-> n, tuned |-> t, rmse |-> e, fitted_on |-> rows, own_preprocessor |-> own]

(* evaluate_model: the pipeline around the shared preprocessor, fitted on  *)
(* the training half, and its score on the held-out half                   *)
evaluate_model(n, e, train, test) ==
    [model       |-> Estimator(n, FALSE, e, PipelineFitRows(train, test), Missing),
     rmse        |-> e,
     predictions |-> test]

(* the rows the preprocessor step of a pipeline is fitted on *)
PreprocessorIn(est) ==
    IF IsNa(est.own_preprocessor) THEN preprocessor ELSE est.own_preprocessor

(* pickle.dump: the pipeline with the state its steps have at that moment *)
Pickled(est) == [est EXCEPT !.own_preprocessor = PreprocessorIn(est)]

(* A selection that keeps the candidate with the highest RMSE. *)
WorstByRmse(res) ==
    LET i == CHOOSE k \in 1..Len(models) :
                 /\ \A j \in 1..Len(models) : res[models[j]].rmse <= res[models[k]].rmse
                 /\ \A j \in 1..(k - 1) : res[models[j]].rmse < res[models[k]].rmse
    IN  models[i]

(* min(results, key=lambda k: results[k]["rmse"]): the first key, in the   *)
(* order of the dict, that reaches the lowest RMSE.                        *)
BestByRmse(res) ==
    LET i == CHOOSE k \in 1..Len(models) :
                 /\ \A j \in 1..Len(models) : res[models[k]].rmse <= res[models[j]].rmse
                 /\ \A j \in 1..(k - 1) : res[models[j]].rmse > res[models[k]].rmse
    IN  models[i]

(* the branches of the tuning cell that build a non-empty param_grid *)
HasParamGrid(n) == n \in {"Random Forest", "Gradient Boosting", "Decision Tree"}

(* A feature-importance cell that handles every candidate. *)
AnyImportances(n) == n \in ModelNames

(* the candidates the feature-importance cell handles *)
HasImportances(n) == n \in {"Random Forest", "Gradient Boosting", "Decision Tree"}

(* Cell 5408efac: the split into the training and the held-out half *)
M_Split ==
    /\ mpc = "split"
    /\ \E s \in train_test_split(X) :
           /\ X_train' = s.train
           /\ X_test' = s.test
    /\ mpc' = "evaluate"
    /\ UNCHANGED <<preprocessor, results, best_model_name, best_model, rmse, r2,
                   tardis_model, model_info>>
    /\ UNCHANGED <<envVars, fuzzyVars, dateVars, pipeVars>>

(* Cell 151ff487: every candidate is fitted on X_train through the shared  *)
(* preprocessor and scored on X_test.                                      *)
M_Evaluate ==
    /\ mpc = "evaluate"
    /\ \E e \in [ModelNames -> RmseLevels] :
           results' = [n \in ModelNames |-> evaluate_model(n, e[n], X_train, X_test)]
    /\ preprocessor' = Some(PipelineFitRows(X_train, X_test))
    /\ mpc' = "select"
    /\ UNCHANGED <<X_train, X_test, best_model_name, best_model, rmse, r2,
                   tardis_model, model_info>>
    /\ UNCHANGED <<envVars, fuzzyVars, dateVars, pipeVars>>

(* Cell 8b89d2e7: the comparison chart and the selection *)
M_Select ==
    /\ mpc = "select"
    /\ best_model_name' = Some(BestByRmse(results))
    /\ best_model' = Some(results[BestByRmse(results)].model)
    /\ mpc' = "tune"
    /\ UNCHANGED <<X_train, X_test, preprocessor, results, rmse, r2, tardis_model,
                   model_info>>
    /\ UNCHANGED <<envVars, fuzzyVars, dateVars, pipeVars>>

(* Cell 012e92b8: with a param_grid the grid search refits a clone of the  *)
(* selected pipeline, best_model becomes its best_estimator_, and rmse and *)
(* r2 are assigned from its predictions on X_test; without one (Linear     *)
(* Regression) nothing is assigned.                                        *)
M_Tune ==
    /\ mpc = "tune"
    /\ IF HasParamGrid(Value(best_model_name))
       THEN \E e \in RmseLevels :
                LET rows == GridSearchFitRows(X_train, X_test)
                    best_estimator_ ==
                        Estimator(Value(best_model_name), TRUE, e, rows, Some(rows))
                IN  /\ best_model' = Some(best_estimator_)
                    /\ rmse' = Some(e)
                    /\ r2' = Some(best_estimator_)
       ELSE UNCHANGED <<best_model, rmse, r2>>
    /\ mpc' = "importance"
    /\ UNCHANGED <<X_train, X_test, preprocessor, results, best_model_name,
                   tardis_model, model_info>>
    /\ UNCHANGED <<envVars, fuzzyVars, dateVars, pipeVars>>

(* Cell 78b509ec: for a tree model the shared preprocessor is fitted on X  *)
(* to read the names of the encoded columns.                               *)
M_Importance ==
    /\ mpc = "importance"
    /\ preprocessor' = IF HasImportances(Value(best_model_name)) THEN Some(X)
                       ELSE preprocessor
    /\ mpc' = "plot"
    /\ UNCHANGED <<X_train, X_test, results, best_model_name, best_model, rmse, r2,
                   tardis_model, model_info>>
    /\ UNCHANGED <<envVars, fuzzyVars, dateVars, pipeVars>>

(* Cell dfc3bf9a: the chart of actual against predicted delays *)
M_Plot ==
    /\ mpc = "plot"
    /\ mpc' = "save"
    /\ UNCHANGED <<X_train, X_test, preprocessor, results, best_model_name, best_model,
                   rmse, r2, tardis_model, model_info>>
    /\ UNCHANGED <<envVars, fuzzyVars, dateVars, pipeVars>>

(* Cell 4aafa29c: tardis_model.pkl is written first; building model_info   *)
(* reads the names rmse and r2 and raises NameError while they are         *)
(* undefined, before model_info.pkl is opened.                             *)
M_Save ==
    /\ mpc = "save"
    /\ tardis_model' = Some(Pickled(Value(best_model)))
    /\ IF IsNa(rmse) \/ IsNa(r2)
       THEN model_info' = model_info /\ mpc' = "crashed"
       ELSE /\ model_info' = Some([model_name           |-> Value(best_model_name),
                                   numerical_features   |-> numerical_features,
                                   categorical_features |-> categorical_features,
                                   target               |-> target,
                                   metrics              |-> [rmse |-> Value(rmse),
                                                             r2   |-> Value(r2)]])
            /\ mpc' = "done"
    /\ UNCHANGED <<X_train, X_test, preprocessor, results, best_model_name, best_model,
                   rmse, r2>>
    /\ UNCHANGED <<envVars, fuzzyVars, dateVars, pipeVars>>

NextModeling ==
    \/ M_Split
    \/ M_Evaluate
    \/ M_Select
    \/ M_Tune
    \/ M_Importance
    \/ M_Plot
    \/ M_Save

----------------------------------------------------------------------------
(* Initial states                                                          *)

PipeIdle ==
    /\ pc = "idle"
    /\ dataset = <<>>
    /\ df = <<>>
    /\ top_departures = <<>>
    /\ top_arrivals = <<>>
    /\ top_services = <<>>
    /\ df_clean = <<>>
    /\ cleaned_dataset = Missing

DateIdle ==
    /\ dpc = "idle"
    /\ date_str = Missing
    /\ repaired = <<>>
    /\ again = Missing
    /\ parsed = Missing
    /\ season = ""

(* the modeling notebook before its first cell, in a fresh kernel *)
ModelingFresh ==
    /\ X_train = {}
    /\ X_test = {}
    /\ preprocessor = Missing
    /\ results = <<>>
    /\ best_model_name = Missing
    /\ best_model = Missing
    /\ rmse = Missing
    /\ r2 = Missing
    /\ tardis_model = Missing
    /\ model_info = Missing

ModelingIdle == mpc = "idle" /\ ModelingFresh

FuzzyIdle ==
    /\ fpc = "idle"
    /\ name = Missing
    /\ top_list = <<>>
    /\ ret = Missing

(* Scores of unequal texts: just below, at and above the threshold. *)
ScoreLevels == {threshold - 1, threshold, 90}

(* Normalised names: "A-B" and "A B" differ only in punctuation, "-" has   *)
(* no letter or digit at all.                                              *)
FuzzyNames == {<<"A", "-", "B">>, <<"A", " ", "B">>, <<"C">>, <<"-">>}

FuzzyKeys == {full_process(n) : n \in FuzzyNames} \ {<<>>}

KeyPairs == {p \in FuzzyKeys \X FuzzyKeys : p[1] # p[2]}

MaxRows == 2

RawNum(n) == Some([t |-> "num", v |-> n])
RawText == Some([t |-> "text"])

(* A row of the file as the data usually is: names in need of             *)
(* normalisation, a well-formed past date, plausible numbers.              *)
DefaultRow ==
    (colService :> Some(<<"a", " ", " ", "b">>))
        @@ (colDeparture :> Some(<<" ", "a", "-", "b">>))
        @@ (colArrival :> Some(<<"c">>))
        @@ (colDate :> Some(<<"2", "0", "2", "3", "-", "0", "4">>))
        @@ (colCancelled :> RawNum(3))
        @@ (colArrDelay :> RawNum(10))
        @@ (colExternal :> RawNum(50))
        @@ (colInfra :> RawNum(30))

(* The cells of a numeric column in the file: missing, not a number, and   *)
(* numbers around the limits the cells test.                               *)
NumTokens ==
    {Missing, RawText}
        \cup {RawNum(n) : n \in {-1, 5, 15, 16, 31, 100, 101, 500, 501}}

(* The file: up to MaxRows rows; one numeric column holds arbitrary        *)
(* tokens, everything else is as in DefaultRow.                            *)
Init ==
    /\ pc = "load"
    /\ \E n \in 0..MaxRows, c \in numeric_columns :
           \E f \in [1..n -> NumTokens] :
               dataset = [i \in 1..n |-> [DefaultRow EXCEPT ![c] = f[i]]]
    /\ df = <<>>
    /\ top_departures = <<>>
    /\ top_arrivals = <<>>
    /\ top_services = <<>>
    /\ df_clean = <<>>
    /\ cleaned_dataset = Missing
    /\ wratio = [p \in KeyPairs |-> threshold - 1]
    /\ parser = "strict"
    /\ FuzzyIdle
    /\ DateIdle
    /\ ModelingIdle

Spec == Init /\ [][Next]_vars

(* The Date cells of the file: well-formed past dates (the month of the    *)
(* run included), dates after the run, a token the repair fixes, tokens    *)
(* it does not fix, and tokens no parser reads.                            *)
FileDates ==
    {Missing,
     Some(<<"2", "0", "2", "3", "-", "0", "4">>),
     Some(<<"2", "0", "2", "5", "-", "0", "6">>),
     Some(<<"2", "0", "2", "5", "-", "0", "7">>),
     Some(<<"2", "0", "9", "9", "-", "1", "2">>),
     Some(<<"2", "0", "2", "3", ".", "0", "4">>),
     Some(<<"2", "0", "2", "3", "0", "4">>),
     Some(<<"2", "0", "2", "3", "-", "1", "3">>),
     Some(<<>>),
     Some(<<"N", "/", "A">>)}

(* The file with arbitrary Date cells, read by either build of the parser; *)
(* everything else is as in DefaultRow.                                    *)
InitFileDates ==
    /\ pc = "load"
    /\ \E n \in 0..MaxRows :
           \E f \in [1..n -> FileDates] :
               dataset = [i \in 1..n |-> [DefaultRow EXCEPT ![colDate] = f[i]]]
    /\ df = <<>>
    /\ top_departures = <<>>
    /\ top_arrivals = <<>>
    /\ top_services = <<>>
    /\ df_clean = <<>>
    /\ cleaned_dataset = Missing
    /\ wratio = [p \in KeyPairs |-> threshold - 1]
    /\ parser \in ParserBuilds
    /\ FuzzyIdle
    /\ DateIdle
    /\ ModelingIdle

SpecFileDates == InitFileDates /\ [][Next]_vars

----------------------------------------------------------------------------
(* Harness of correct_station_from_top: one call on a name and a reference *)
(* list drawn from bounded sets.                                           *)

MaxList == 3

DistinctLists(S, n) ==
    {l \in UNION {[1..k -> S] : k \in 0..n} :
        \A i, j \in 1..Len(l) : i # j => l[i] # l[j]}

Members(l) == {l[i] : i \in 1..Len(l)}

InitFuzzy ==
    /\ fpc = "call"
    /\ name \in {Missing} \cup {Some(n) : n \in FuzzyNames}
    /\ top_list \in DistinctLists(FuzzyNames, MaxList)
    /\ ret = Missing
    /\ wratio \in [KeyPairs -> ScoreLevels]
    /\ parser = "strict"
    /\ DateIdle
    /\ PipeIdle
    /\ ModelingIdle

F_Call ==
    /\ fpc = "call"
    /\ ret' = correct_station_from_top(name, top_list)
    /\ fpc' = "returned"
    /\ UNCHANGED <<name, top_list>>
    /\ UNCHANGED <<envVars, dateVars, pipeVars, modelVars>>

NextFuzzy == F_Call

SpecFuzzy == InitFuzzy /\ [][NextFuzzy]_vars

----------------------------------------------------------------------------
(* Harness of the date helpers: the repair lambda, the repair applied to   *)
(* its own output, safe_date_convert and the Season lambda on one token.   *)

DateYears == {<<"2", "0", "2", "3">>, <<"2", "0", "9", "9">>}

DateSeps == {<<>>, <<"-">>, <<".">>, <<"0">>}

DateMonths == {<<a, b>> : a \in {"0", "1"}, b \in Digits}

DateTokens ==
    {y \o sp \o m : y \in DateYears, sp \in DateSeps, m \in DateMonths}
        \cup {<<>>, <<"N", "/", "A">>}

InitDate ==
    /\ dpc = "raw"
    /\ date_str \in {Missing} \cup {Some(t) : t \in DateTokens}
    /\ repaired = <<>>
    /\ again = Missing
    /\ parsed = Missing
    /\ season = ""
    /\ wratio = [p \in KeyPairs |-> threshold - 1]
    /\ parser \in ParserBuilds
    /\ FuzzyIdle
    /\ PipeIdle
    /\ ModelingIdle

D_Repair ==
    /\ dpc = "raw"
    /\ repaired' = DateRepair(astype_str(date_str))
    /\ dpc' = "repaired"
    /\ UNCHANGED <<date_str, again, parsed, season>>
    /\ UNCHANGED <<envVars, fuzzyVars, pipeVars, modelVars>>

D_Rerun ==
    /\ dpc = "repaired"
    /\ again = Missing
    /\ again' = Some(DateRepair(repaired))
    /\ UNCHANGED <<dpc, date_str, repaired, parsed, season>>
    /\ UNCHANGED <<envVars, fuzzyVars, pipeVars, modelVars>>

D_Convert ==
    /\ dpc = "repaired"
    /\ parsed' = safe_date_convert(repaired)
    /\ dpc' = "converted"
    /\ UNCHANGED <<date_str, repaired, again, season>>
    /\ UNCHANGED <<envVars, fuzzyVars, pipeVars, modelVars>>

D_Season ==
    /\ dpc = "converted"
    /\ season' = Season(MonthOf(parsed))
    /\ dpc' = "featured"
    /\ UNCHANGED <<date_str, repaired, again, parsed>>
    /\ UNCHANGED <<envVars, fuzzyVars, pipeVars, modelVars>>

NextDate == D_Repair \/ D_Rerun \/ D_Convert \/ D_Season

SpecDate == InitDate /\ [][NextDate]_vars

----------------------------------------------------------------------------
(* A run of the modeling notebook in a fresh kernel, from the cell that    *)
(* splits the data on.                                                     *)

InitModeling ==
    /\ mpc = "split"
    /\ ModelingFresh
    /\ wratio = [p \in KeyPairs |-> threshold - 1]
    /\ parser = "strict"
    /\ FuzzyIdle
    /\ DateIdle
    /\ PipeIdle

SpecModeling == InitModeling /\ [][NextModeling]_vars

(* Run All: a cell that can run does run. *)
SpecModelingLive == SpecModeling /\ WF_vars(NextModeling)

----------------------------------------------------------------------------
(* Properties of the fuzzy corrector                                       *)

(* C4: a name that is a member of the reference list is returned           *)
(* unchanged, also when several members reach the same best score.         *)
C4_IdempotentOnCanonical ==
    (fpc = "returned" /\ ~IsNa(name) /\ Value(name) \in Members(top_list))
        => (ret.kind = "return" /\ ret.value = name)

BestScore == MaxScore(Scores(Value(name), top_list))

BestMatches ==
    {top_list[i] : i \in {k \in 1..Len(top_list) :
        WRatio(full_process(Value(name)), full_process(top_list[k])) = BestScore}}

C11_LogPerCorrection ==
    (fpc = "returned" /\ ~IsNa(name) /\ ret.kind = "return" /\ ret.value # name)
        => ret.printed

(* C12: a missing name is returned as it is, without a raise and without   *)
(* a printed line, whatever the reference list holds (the empty list       *)
(* included).                                                              *)
C12_MissingNamePassesThrough ==
    (fpc = "returned" /\ IsNa(name))
        => (ret.kind = "return" /\ ret.value = name /\ ~ret.printed)

(* a missing name called with an empty reference list *)
C12_Witness ==
    /\ fpc = "returned"
    /\ IsNa(name)
    /\ top_list = <<>>
    /\ ret = [kind |-> "return", value |-> Missing, printed |-> FALSE]

C24_WitnessKept ==
    /\ fpc = "returned"
    /\ ~IsNa(name)
    /\ top_list # <<>>
    /\ Value(name) \notin Members(top_list)
    /\ ret.value = name
    /\ BestScore = threshold - 1

----------------------------------------------------------------------------
(* Properties of the date helpers                                          *)

SixDigits(x) == Len(x) = 6 /\ AllDigits(x, 1, 6)

YearMonthForm(x) ==
    /\ Len(x) = 7
    /\ AllDigits(x, 1, 4)
    /\ x[5] = "-"
    /\ AllDigits(x, 6, 7)

(* C5: the repair turns every six-digit token YYYYMM into YYYY-MM. *)
C5_SixDigitsRepaired ==
    (dpc # "raw" /\ dpc # "idle" /\ SixDigits(astype_str(date_str)))
        => repaired = SubSeq(astype_str(date_str), 1, 4) \o <<"-">>
                          \o SubSeq(astype_str(date_str), 5, 6)

(* C6: the repair leaves every token of the form YYYY-MM unchanged, and    *)
(* so does a second application to its own output.                         *)
C6_YearMonthUnchanged ==
    (dpc # "raw" /\ dpc # "idle" /\ YearMonthForm(astype_str(date_str)))
        => /\ repaired = astype_str(date_str)
           /\ ~IsNa(again) => Value(again) = astype_str(date_str)

C6_Witness ==
    /\ dpc = "repaired"
    /\ YearMonthForm(astype_str(date_str))
    /\ ~IsNa(again)
    /\ Value(again) = astype_str(date_str)

(* C7: months 12, 1, 2 give Winter, 3..5 Spring, 6..8 Summer, 9..11 Fall,  *)
(* and Unknown is given exactly to a missing month.                        *)
C7_SeasonOfMonth ==
    dpc = "featured" =>
        LET m == MonthOf(parsed)
        IN  /\ IsNa(m) <=> season = "Unknown"
            /\ ~IsNa(m) =>
                  /\ Value(m) \in 1..12
                  /\ Value(m) \in {12, 1, 2} <=> season = "Winter"
                  /\ Value(m) \in {3, 4, 5} <=> season = "Spring"
                  /\ Value(m) \in {6, 7, 8} <=> season = "Summer"
                  /\ Value(m) \in {9, 10, 11} <=> season = "Fall"

C7_Witness ==
    /\ dpc = "featured"
    /\ MonthOf(parsed) = Some(12)
    /\ season = "Winter"

----------------------------------------------------------------------------
(* Properties of the cleaned output                                        *)

Written == ~IsNa(cleaned_dataset)

Output == Value(cleaned_dataset)

(* the row of the file a row of the frame was read from *)
InputOf(row) == dataset[row["index"]]

IsNegativeToken(raw) == ~IsNa(raw) /\ Value(raw).t = "num" /\ Value(raw).v < 0

IsNumberAbove(raw, n) == ~IsNa(raw) /\ Value(raw).t = "num" /\ Value(raw).v > n

(* C1: in the cleaned output every value of every percentage column lies   *)
(* in [0,100], whatever the input held.                                    *)
C1_PctInRange ==
    Written =>
        \A i \in 1..Len(Output) : \A c \in {colExternal, colInfra} :
            /\ ~IsNa(Output[i][c])
            /\ Value(Output[i][c]) >= 0
            /\ Value(Output[i][c]) <= Num(100)

(* C2: in the cleaned output every value of an "Average" column that is    *)
(* not missing is at most 500, also after the median fill.                 *)
C2_AverageAtMost500 ==
    Written =>
        \A i \in 1..Len(Output) :
            ~IsNa(Output[i][colArrDelay]) => Value(Output[i][colArrDelay]) <= Num(500)

(* an average over 500 in the file, filled by the median of the column *)
C2_Witness ==
    /\ Written
    /\ \E i \in 1..Len(Output) :
          /\ IsNumberAbove(InputOf(Output[i])[colArrDelay], 500)
          /\ ~IsNa(Output[i][colArrDelay])
          /\ Value(Output[i][colArrDelay]) <= Num(500)

AfterNumClean == pc \in {"features", "finalprep", "save", "done"}

(* C3: once the numeric sanitizer has run no declared numeric column holds *)
(* a negative value: every negative value of the file has become 0, and    *)
(* no later cell brings a negative value back.                             *)
C3_NoNegative ==
    AfterNumClean =>
        \A i \in 1..Len(df) : \A c \in {colCancelled, colArrDelay, colExternal, colInfra} :
            /\ ~IsNa(df[i][c]) => Value(df[i][c]) >= 0
            /\ IsNegativeToken(InputOf(df[i])[c]) => df[i][c] = Some(0)

C3_Witness ==
    /\ pc = "done"
    /\ \E i \in 1..Len(df) :
          /\ IsNegativeToken(InputOf(df[i])[colCancelled])
          /\ df[i][colCancelled] = Some(0)

(* the rows of the file that did not reach the cleaned output *)
Dropped == {i \in 1..Len(dataset) : \A k \in 1..Len(Output) : Output[k]["index"] # i}

(* the Date cell of row i of the file as the parser of the filter reads it *)
FileDate(i) == ParseGeneric(DateRepair(astype_str(dataset[i][colDate])))

(* C13: the cleaned output holds no row without a parsed date and no row   *)
(* dated after the run: every row of the file whose date is unparsable or  *)
(* in the future has been dropped.                                         *)
C13_NoFutureNoUnparsed ==
    Written =>
        /\ \A k \in 1..Len(Output) :
               /\ ~IsNa(Output[k][colDate])
               /\ NotAfter(Value(Output[k][colDate]), datetime_now)
        /\ \A i \in 1..Len(dataset) :
               (IsNa(FileDate(i)) \/ ~NotAfter(Value(FileDate(i)), datetime_now))
                   => i \in Dropped

(* a file with a row that is kept, written without its future-dated row *)
C13_Witness ==
    /\ Written
    /\ Len(Output) = 1
    /\ \E i \in Dropped :
          ~IsNa(FileDate(i)) /\ ~NotAfter(Value(FileDate(i)), datetime_now)

(* a file with a row that is kept, written without its unparsable row *)
C13_WitnessUnparsed ==
    /\ Written
    /\ Len(Output) = 1
    /\ \E i \in Dropped : IsNa(FileDate(i))

(* C8: in every row of the cleaned output Is_Significantly_Delayed is 1    *)
(* exactly when the average arrival delay is over 15, and 0 otherwise.     *)
C8_SignificantFlag ==
    Written =>
        \A i \in 1..Len(Output) :
            LET delay == Output[i][colArrDelay]
                flag  == Output[i]["Is_Significantly_Delayed"]
            IN  /\ flag \in {0, 1}
                /\ flag = 1 <=> (~IsNa(delay) /\ Value(delay) > Num(15))

(* a row at exactly 15 minutes beside a row over 15 minutes *)
C8_Witness ==
    /\ Written
    /\ \E i, j \in 1..Len(Output) :
          /\ Output[i][colArrDelay] = Some(Num(15))
          /\ Output[i]["Is_Significantly_Delayed"] = 0
          /\ Output[j][colArrDelay] = Some(Num(16))
          /\ Output[j]["Is_Significantly_Delayed"] = 1

(* C14: in every row of the cleaned output Total_Delay_Score is the sum of *)
(* the row's "Pct delay due to ..." values as the output holds them.       *)
C14_ScoreIsSumOfOutput ==
    Written =>
        \A i \in 1..Len(Output) :
            Output[i]["Total_Delay_Score"] = Total_Delay_Score(Output[i])

(* the file holds a Date cell that no parser reads, and no future date *)
UnparsableDatesOnly ==
    /\ \E i \in 1..Len(dataset) : IsNa(FileDate(i))
    /\ \A i \in 1..Len(dataset) :
          ~IsNa(FileDate(i)) => NotAfter(Value(FileDate(i)), datetime_now)

(* C18: unparsable values never abort the cleaning run: a run over a file  *)
(* that holds unparsable dates raises in no cell.                          *)
C18_UnparsableNeverAborts == UnparsableDatesOnly => pc # "crashed"

(* the frame as the numeric cleaning loop left it *)
JustCleaned == pc = "features"

IsNumberIn(raw, lo, hi) ==
    ~IsNa(raw) /\ Value(raw).t = "num" /\ Value(raw).v >= lo /\ Value(raw).v <= hi

C22_NoMissingAfterFill ==
    Written =>
        \A i \in 1..Len(Output) :
            /\ \A c \in numeric_columns : ~IsNa(Output[i][c])
            /\ \A k \in 1..Len(categorical_columns) :
                   ~IsNa(Output[i][categorical_columns[k]])

(* the frame as the feature cell left it, before the median fill *)
JustCategorised == pc = "finalprep"

(* The categories the notebook documents for a delay (in halves): under 5  *)
(* Minimal, 5 to 15 Moderate, 15 to 30 Significant, over 30 Severe; a      *)
(* delay on a border that two ranges name may have either.                 *)
DocumentedCategories(v) ==
    {c \in {"Minimal", "Moderate", "Significant", "Severe"} :
        \/ c = "Minimal" /\ v < Num(5)
        \/ c = "Moderate" /\ v >= Num(5) /\ v <= Num(15)
        \/ c = "Significant" /\ v >= Num(15) /\ v <= Num(30)
        \/ c = "Severe" /\ v > Num(30)}

(* C23: every delay that is not missing gets one category, and it is the   *)
(* documented one.                                                         *)
C23_DocumentedBuckets ==
    JustCategorised =>
        \A i \in 1..Len(df) :
            ~IsNa(df[i][colArrDelay]) =>
                /\ ~IsNa(df[i]["Delay_Category"])
                /\ Value(df[i]["Delay_Category"])
                       \in DocumentedCategories(Value(df[i][colArrDelay]))

(* C25: Is_Significantly_Delayed and Delay_Category agree: in every row    *)
(* whose average arrival delay was not missing when the median fill        *)
(* started, the flag the cell computes after the fill is 1 exactly when    *)
(* the category computed before the fill is Significant or Severe.         *)
C25_SeverityFeaturesAgree ==
    [][(pc = "finalprep" /\ pc' = "save") =>
          \A i \in 1..Len(df) :
              ~IsNa(df[i][colArrDelay]) =>
                  /\ df'[i]["Is_Significantly_Delayed"] \in {0, 1}
                  /\ df'[i]["Is_Significantly_Delayed"] = 1
                        <=> df'[i]["Delay_Category"] \in {Some("Significant"), Some("Severe")}]_vars

(* a delay of 16 flagged and Significant, a delay of 15 not flagged and    *)
(* Moderate                                                                *)
C25_Witness ==
    /\ Written
    /\ \E i, j \in 1..Len(Output) :
          /\ InputOf(Output[i])[colArrDelay] = RawNum(16)
          /\ Output[i]["Is_Significantly_Delayed"] = 1
          /\ Output[i]["Delay_Category"] = Some("Significant")
          /\ InputOf(Output[j])[colArrDelay] = RawNum(15)
          /\ Output[j]["Is_Significantly_Delayed"] = 0
          /\ Output[j]["Delay_Category"] = Some("Moderate")

(* a row without a delay filled with the median 16 of the column: flagged, *)
(* without a category                                                      *)
C25_WitnessFilled ==
    /\ Written
    /\ \E i, j \in 1..Len(Output) :
          /\ InputOf(Output[i])[colArrDelay] = RawNum(16)
          /\ Output[i]["Delay_Category"] = Some("Significant")
          /\ IsNa(InputOf(Output[j])[colArrDelay])
          /\ Output[j][colArrDelay] = Some(Num(16))
          /\ Output[j]["Is_Significantly_Delayed"] = 1
          /\ IsNa(Output[j]["Delay_Category"])

(* the cells that run on the converted Date column *)
AfterDateConvert ==
    pc \in {"validate", "datefeatures", "numclean", "features", "finalprep", "save", "done"}

(* C26: every row that passed the future-date filter has a date that       *)
(* safe_date_convert converts to a value, so the not-missing filter that   *)
(* builds df_clean removes no row, and no row of the cleaned output has    *)
(* Season "Unknown".                                                       *)
C26_FilterLeavesOnlyConvertible ==
    /\ [](AfterDateConvert => \A i \in 1..Len(df) : ~IsNa(df[i][colDate]))
    /\ [][pc = "validate" => df_clean' = df]_vars
    /\ [](Written => \A i \in 1..Len(Output) : Output[i]["Season"] # Some("Unknown"))

(* six digits that only the flexible parser reads pass the filter and are  *)
(* converted by the fallback, while another row of the file is dropped     *)
C26_Witness ==
    /\ Written
    /\ Dropped # {}
    /\ Len(df_clean) = Len(Output)
    /\ \E i \in 1..Len(Output) :
          /\ InputOf(Output[i])[colDate] = Some(<<"2", "0", "2", "3", "0", "4">>)
          /\ Output[i][colDate] = Some([year |-> 2023, month |-> 4])
          /\ Output[i]["Season"] = Some("Spring")

DerivedFields ==
    {"Year", "Month", "Season", "Delay_Category", "Total_Delay_Score", "Route",
     "Is_Significantly_Delayed"}

(* C17: once a derived field is assigned no later cell changes any of its  *)
(* values, and the file is written with those values.                      *)
C17_DerivedComputedOnce ==
    [][/\ \A i \in 1..Len(df) : \A c \in DerivedFields \cap DOMAIN df[i] :
             /\ i <= Len(df')
             /\ c \in DOMAIN df'[i]
             /\ df'[i][c] = df[i][c]
       /\ cleaned_dataset' # cleaned_dataset => cleaned_dataset' = Some(df)]_vars

(* a written row that has all seven fields and whose missing percentage    *)
(* was filled after Total_Delay_Score had been computed                    *)
C17_Witness ==
    /\ Written
    /\ \E i \in 1..Len(Output) :
          /\ DerivedFields \subseteq DOMAIN Output[i]
          /\ IsNa(to_numeric(InputOf(Output[i])[colExternal]))
          /\ ~IsNa(Output[i][colExternal])

----------------------------------------------------------------------------
(* Properties of the modeling notebook                                     *)

Selected == ~IsNa(best_model_name)

(* C15: the selected candidate has the lowest held-out RMSE: its RMSE is   *)
(* at most the RMSE of each of the four candidates.                        *)
C15_LowestRmseSelected ==
    Selected =>
        \A n \in ModelNames :
            results[Value(best_model_name)].rmse <= results[n].rmse

(* the last candidate of the dict selected, strictly better than the rest *)
C15_Witness ==
    /\ Selected
    /\ Value(best_model_name) = "Gradient Boosting"
    /\ \A n \in ModelNames \ {"Gradient Boosting"} :
          results["Gradient Boosting"].rmse < results[n].rmse

(* C16: whichever candidate is selected, the run ends with both            *)
(* tardis_model.pkl and model_info.pkl written.                            *)
C16_BothArtifactsWritten == <>(~IsNa(tardis_model) /\ ~IsNa(model_info))

(* C19: the estimator in tardis_model.pkl has a held-out RMSE no greater   *)
(* than that of each of the four candidates, also when it is the           *)
(* estimator the grid search returned.                                     *)
C19_SavedIsBest ==
    ~IsNa(tardis_model) =>
        \A n \in ModelNames : Value(tardis_model).rmse <= results[n].rmse

SplitDone == mpc \notin {"idle", "split"}

(* C21: the four candidates are fitted on the same training half and       *)
(* scored on the same held-out half; no fit and no grid search reads a     *)
(* held-out row; and the split stays as it is once made.                   *)
C21_HeldOutNeverFitted ==
    /\ [](SplitDone =>
            /\ X_train \cap X_test = {}
            /\ X_train \cup X_test = X
            /\ results # <<>> =>
                   \A n \in ModelNames :
                       /\ results[n].model.fitted_on = X_train
                       /\ results[n].predictions = X_test
            /\ ~IsNa(best_model) => Value(best_model).fitted_on \cap X_test = {})
    /\ [][SplitDone => (X_train' = X_train /\ X_test' = X_test)]_vars

(* a tree model selected and replaced by the estimator of the grid search *)
C21_Witness ==
    /\ mpc = "done"
    /\ X_test # {}
    /\ Value(best_model).tuned
    /\ Value(best_model).fitted_on = X_train
    /\ \A n \in ModelNames : results[n].predictions = X_test

(* C27: the preprocessor inside the pickled predictor is fitted on the     *)
(* training rows only: the feature-importance cell, which fits the shared  *)
(* preprocessor on all rows, leaves the predictor as pickle.dump will      *)
(* write it unchanged, whichever candidate was selected.                   *)
C27_PickledPreprocessorOnTrain ==
    /\ [](~IsNa(tardis_model) =>
            /\ Value(tardis_model).own_preprocessor = Some(X_train)
            /\ Value(tardis_model).fitted_on = X_train)
    /\ [][mpc = "importance" =>
             /\ best_model' = best_model
             /\ Pickled(Value(best_model))' = Pickled(Value(best_model))]_vars

(* a tree model pickled after the shared preprocessor was fitted on all    *)
(* rows, held-out rows included                                            *)
C27_Witness ==
    /\ ~IsNa(tardis_model)
    /\ HasImportances(Value(tardis_model).name)
    /\ preprocessor = Some(X)
    /\ X_test # {}
    /\ Value(tardis_model).own_preprocessor = Some(X_train)

(* Linear Regression pickled with the shared preprocessor as its step *)
C27_WitnessShared ==
    /\ ~IsNa(tardis_model)
    /\ Value(tardis_model).name = "Linear Regression"
    /\ IsNa(Value(best_model).own_preprocessor)
    /\ preprocessor = Some(X_train)
    /\ X_test # {}

====
